---------------------------- MODULE Spec2Model ----------------------------
(***************************************************************************)
(* A model of the Text prompt of cliclack (src/src/text.rs) and of the     *)
(* theme-reading helpers of src/src/lib.rs.                                *)
(*                                                                         *)
(* The Text prompt is a struct {prompt, placeholder, input, validate};     *)
(* `notify` maps one key event to an interaction State and edits `input`;  *)
(* `render` draws the prompt with ClackTheme.  The cursor buffer           *)
(* (crate::cursor::StringCursor), the event loop                           *)
(* (PromptInteraction::interact) and the theme slot (theme::THEME,         *)
(* set_theme, reset_theme) live in files that are not part of src/; they   *)
(* are modelled from spec.md (sections 4.1, 4.3, 4.4 and 5).               *)
(*                                                                         *)
(* Characters are Unicode code points (integers), strings are sequences    *)
(* of code points.                                                         *)
(***************************************************************************)
EXTENDS Integers, Sequences, FiniteSets, TLC

VARIABLES
    text,       \* the Text struct: [prompt, placeholder, input, validate]
    state,      \* the driver's current interaction State<String>
    pc,         \* where interact() is: "new", "reading", "returned"
    result,     \* what interact() returned to its caller
    lastKey,    \* the key event the driver read last (NoKey before the first)
    lastCalls,  \* the arguments the validator was invoked with while that key was processed
    errSeen,    \* history: some notify of this interaction returned Error
    ref,        \* history: the reference sequence model fed the same operations as `input`
    twin,       \* history: a prompt differing only in its placeholder, fed the same keys
    theme,      \* the process-wide THEME slot
    frame,      \* the last string render produced
    term,       \* the last block written to the terminal by a banner helper
    lock,       \* the thread holding the THEME mutex (NoThread when it is free)
    thr,        \* per thread: where it is in the helper it is running
    last        \* history: the helper call that returned last

vars ==
    <<text, state, pc, result, lastKey, lastCalls, errSeen, ref, twin, theme, frame, term,
      lock, thr, last>>

\* The Text prompt and its loop.
promptVars == <<text, state, pc, result, lastKey, lastCalls, errSeen, ref, twin, frame>>

---------------------------------------------------------------------------
(* Bounds of the model. *)

\* The longest input buffer the model lets the user type.
MaxLen == 5

\* The number of helper calls each thread makes.
MaxCalls == 2

---------------------------------------------------------------------------
(* Characters and keys (console::Key). *)

\* 'h', 'e', 'l', 'o': enough to type "hello".
HelloChars == {104, 101, 108, 111}

\* 'h', 'i': the printable characters of the general specification.
PrintableChars == {104, 105}

\* ETX (Ctrl-C as a character) and DEL: ASCII control characters.
ControlChars == {3, 127}

hello == <<104, 101, 108, 108, 111>>

Char(chr) == [kind |-> "Char", chr |-> chr]

Special(kind) == [kind |-> kind, chr |-> 0]

Backspace == Special("Backspace")

Del == Special("Del")

ArrowLeft == Special("ArrowLeft")

ArrowRight == Special("ArrowRight")

Enter == Special("Enter")

Escape == Special("Escape")

Tab == Special("Tab")

ArrowUp == Special("ArrowUp")

NoKey == Special("NoKey")

EditKeys == {Backspace, Del, ArrowLeft, ArrowRight}

OtherKeys == {Tab, ArrowUp}

KeysOver(chars) == {Char(c) : c \in chars} \cup EditKeys \cup OtherKeys \cup {Enter, Escape}

Keys == KeysOver(PrintableChars \cup ControlChars)

\* char::is_ascii_control: U+0000..U+001F and U+007F.
is_ascii_control(chr) == chr \in 0..31 \/ chr = 127

\* Event::Key(key)
EventKey(key) == [ev |-> "Key", key |-> key]

---------------------------------------------------------------------------
(* The interaction State<String>. *)

Active == [tag |-> "Active", msg |-> "", value |-> <<>>]

Error(err) == [tag |-> "Error", msg |-> err, value |-> <<>>]

Submit(value) == [tag |-> "Submit", msg |-> "", value |-> value]

Cancel == [tag |-> "Cancel", msg |-> "", value |-> <<>>]

---------------------------------------------------------------------------
(* StringCursor: a sequence of characters and a caret index. *)

StringCursorDefault == [value |-> <<>>, cursor |-> 0]

RemoveAt(s, i) == SubSeq(s, 1, i - 1) \o SubSeq(s, i + 1, Len(s))

insert(c, chr) ==
    [value  |-> SubSeq(c.value, 1, c.cursor) \o <<chr>>
                  \o SubSeq(c.value, c.cursor + 1, Len(c.value)),
     cursor |-> c.cursor + 1]

delete_left(c) ==
    IF c.cursor > 0
    THEN [value |-> RemoveAt(c.value, c.cursor), cursor |-> c.cursor - 1]
    ELSE c

delete_right(c) ==
    IF c.cursor < Len(c.value)
    THEN [c EXCEPT !.value = RemoveAt(c.value, c.cursor + 1)]
    ELSE c

move_left(c) == IF c.cursor > 0 THEN [c EXCEPT !.cursor = c.cursor - 1] ELSE c

\* move_right without the clamp at the end of the buffer.
move_right_unclamped(c) == [c EXCEPT !.cursor = c.cursor + 1]

move_right(c) ==
    IF c.cursor < Len(c.value) THEN [c EXCEPT !.cursor = c.cursor + 1] ELSE c

extend(c, string) == [c EXCEPT !.value = c.value \o string]

to_string(c) == c.value

---------------------------------------------------------------------------
(* Validators: Box<dyn Fn(&str) -> Result<(), String>>. *)

NoValidator == "None"

RejectAll == "RejectAll"

Required == "Required"

ValidatorFns == {RejectAll, Required}

RejectAllMsg == "rejected"

RequiredMsg == "Value is required!"

Ok == [ok |-> TRUE, err |-> ""]

Err(err) == [ok |-> FALSE, err |-> err]

\* The call validator(&str) of a validator of each kind.
validator(fn, str) ==
    CASE fn = RejectAll -> Err(RejectAllMsg)
      [] fn = Required  -> IF str = <<>> THEN Err(RequiredMsg) ELSE Ok

---------------------------------------------------------------------------
(* Text *)

PromptText == "What is your name?"

\* Text::new(prompt)
TextNew(prompt) ==
    [prompt      |-> prompt,
     placeholder |-> StringCursorDefault,
     input       |-> StringCursorDefault,
     validate    |-> NoValidator]

\* Text::placeholder(self, placeholder)
TextPlaceholder(self, placeholder) ==
    [self EXCEPT !.placeholder = extend(self.placeholder, placeholder)]

\* Text::validate(self, validator)
TextValidate(self, fn) == [self EXCEPT !.validate = fn]

\* The Enter arm with the validator's verdict dropped.
NotifyEnterIgnoresVerdict(self) ==
    IF self.validate # NoValidator
    THEN [self |-> self, ret |-> Submit(to_string(self.input)),
          calls |-> <<to_string(self.input)>>]
    ELSE [self |-> self, ret |-> Submit(to_string(self.input)), calls |-> <<>>]

\* The Enter arm submitting only what is left of the caret.
NotifyEnterUpToCaret(self) ==
    LET upto == SubSeq(self.input.value, 1, self.input.cursor)
    IN  IF self.validate # NoValidator
        THEN LET arg == to_string(self.input)
                 res == validator(self.validate, arg)
             IN  IF ~res.ok
                 THEN [self |-> self, ret |-> Error(res.err), calls |-> <<arg>>]
                 ELSE [self |-> self, ret |-> Submit(upto), calls |-> <<arg>>]
        ELSE [self |-> self, ret |-> Submit(upto), calls |-> <<>>]

\* The Enter arm with the test of the validator's verdict inverted.
NotifyEnterInverted(self) ==
    IF self.validate # NoValidator
    THEN LET arg == to_string(self.input)
             res == validator(self.validate, arg)
         IN  IF res.ok
             THEN [self |-> self, ret |-> Error(RequiredMsg), calls |-> <<arg>>]
             ELSE [self |-> self, ret |-> Submit(to_string(self.input)), calls |-> <<arg>>]
    ELSE [self |-> self, ret |-> Submit(to_string(self.input)), calls |-> <<>>]

\* The Enter arm taking the placeholder for the answer when nothing was typed.
NotifyEnterPlaceholderDefault(self) ==
    LET answer == IF self.input.value = <<>>
                  THEN to_string(self.placeholder) ELSE to_string(self.input)
    IN  IF self.validate # NoValidator
        THEN LET res == validator(self.validate, answer)
             IN  IF ~res.ok
                 THEN [self |-> self, ret |-> Error(res.err), calls |-> <<answer>>]
                 ELSE [self |-> self, ret |-> Submit(answer), calls |-> <<answer>>]
        ELSE [self |-> self, ret |-> Submit(answer), calls |-> <<>>]

\* The Enter arm of Text::notify.
NotifyEnter(self) ==
    IF self.validate # NoValidator
    THEN LET arg == to_string(self.input)
             res == validator(self.validate, arg)
         IN  IF ~res.ok
             THEN [self |-> self, ret |-> Error(res.err), calls |-> <<arg>>]
             ELSE [self |-> self, ret |-> Submit(to_string(self.input)), calls |-> <<arg>>]
    ELSE [self |-> self, ret |-> Submit(to_string(self.input)), calls |-> <<>>]

\* notify validating on every typed character as well as on Enter.
TextNotifyValidatesTyping(self, event) ==
    LET key == event.key
        edited(input) == [self  |-> [self EXCEPT !.input = input],
                          ret   |-> Active,
                          calls |-> <<>>]
        typed(input) == [self  |-> [self EXCEPT !.input = input],
                         ret   |-> Active,
                         calls |-> IF self.validate # NoValidator
                                   THEN <<to_string(input)>> ELSE <<>>]
    IN  CASE key.kind = "Char" /\ ~is_ascii_control(key.chr) -> typed(insert(self.input, key.chr))
          [] key.kind = "Backspace"  -> edited(delete_left(self.input))
          [] key.kind = "Del"        -> edited(delete_right(self.input))
          [] key.kind = "ArrowLeft"  -> edited(move_left(self.input))
          [] key.kind = "ArrowRight" -> edited(move_right(self.input))
          [] key.kind = "Enter"      -> NotifyEnter(self)
          [] OTHER                   -> edited(self.input)

\* notify with the Backspace and Del arms exchanged.
TextNotifyDeletesSwapped(self, event) ==
    LET key == event.key
        edited(input) == [self  |-> [self EXCEPT !.input = input],
                          ret   |-> Active,
                          calls |-> <<>>]
    IN  CASE key.kind = "Char" /\ ~is_ascii_control(key.chr) -> edited(insert(self.input, key.chr))
          [] key.kind = "Backspace"  -> edited(delete_right(self.input))
          [] key.kind = "Del"        -> edited(delete_left(self.input))
          [] key.kind = "ArrowLeft"  -> edited(move_left(self.input))
          [] key.kind = "ArrowRight" -> edited(move_right(self.input))
          [] key.kind = "Enter"      -> NotifyEnter(self)
          [] OTHER                   -> edited(self.input)

\* notify with the ArrowLeft and ArrowRight arms exchanged.
TextNotifyArrowsSwapped(self, event) ==
    LET key == event.key
        edited(input) == [self  |-> [self EXCEPT !.input = input],
                          ret   |-> Active,
                          calls |-> <<>>]
    IN  CASE key.kind = "Char" /\ ~is_ascii_control(key.chr) -> edited(insert(self.input, key.chr))
          [] key.kind = "Backspace"  -> edited(delete_left(self.input))
          [] key.kind = "Del"        -> edited(delete_right(self.input))
          [] key.kind = "ArrowLeft"  -> edited(move_right(self.input))
          [] key.kind = "ArrowRight" -> edited(move_left(self.input))
          [] key.kind = "Enter"      -> NotifyEnter(self)
          [] OTHER                   -> edited(self.input)

\* notify without the guard on the Char arm: every character is inserted.
TextNotifyNoControlGuard(self, event) ==
    LET key == event.key
        edited(input) == [self  |-> [self EXCEPT !.input = input],
                          ret   |-> Active,
                          calls |-> <<>>]
    IN  CASE key.kind = "Char"       -> edited(insert(self.input, key.chr))
          [] key.kind = "Backspace"  -> edited(delete_left(self.input))
          [] key.kind = "Del"        -> edited(delete_right(self.input))
          [] key.kind = "ArrowLeft"  -> edited(move_left(self.input))
          [] key.kind = "ArrowRight" -> edited(move_right(self.input))
          [] key.kind = "Enter"      -> NotifyEnter(self)
          [] OTHER                   -> edited(self.input)

\* notify with arms for Home and End that move the caret to the ends.
TextNotifyHomeEnd(self, event) ==
    LET key == event.key
        edited(input) == [self  |-> [self EXCEPT !.input = input],
                          ret   |-> Active,
                          calls |-> <<>>]
    IN  CASE key.kind = "Char" /\ ~is_ascii_control(key.chr) -> edited(insert(self.input, key.chr))
          [] key.kind = "Backspace"  -> edited(delete_left(self.input))
          [] key.kind = "Del"        -> edited(delete_right(self.input))
          [] key.kind = "ArrowLeft"  -> edited(move_left(self.input))
          [] key.kind = "ArrowRight" -> edited(move_right(self.input))
          [] key.kind = "Home"       -> edited([self.input EXCEPT !.cursor = 0])
          [] key.kind = "End"        -> edited([self.input EXCEPT !.cursor = Len(self.input.value)])
          [] key.kind = "Enter"      -> NotifyEnter(self)
          [] OTHER                   -> edited(self.input)

\* Text::notify(&mut self, event) -> State<String>: the struct afterwards, the
\* returned state, and the validator invocations made on the way.
TextNotify(self, event) ==
    LET key == event.key
        edited(input) == [self  |-> [self EXCEPT !.input = input],
                          ret   |-> Active,
                          calls |-> <<>>]
    IN  CASE key.kind = "Char" /\ ~is_ascii_control(key.chr) -> edited(insert(self.input, key.chr))
          [] key.kind = "Backspace"  -> edited(delete_left(self.input))
          [] key.kind = "Del"        -> edited(delete_right(self.input))
          [] key.kind = "ArrowLeft"  -> edited(move_left(self.input))
          [] key.kind = "ArrowRight" -> edited(move_right(self.input))
          [] key.kind = "Enter"      -> NotifyEnter(self)
          [] OTHER                   -> edited(self.input)

---------------------------------------------------------------------------
(* Themes *)

ClackTheme == "ClackTheme"

MagentaTheme == "MagentaTheme"

Themes == {ClackTheme, MagentaTheme}

NoFrame == [by |-> "", tag |-> "", prompt |-> "", body |-> <<>>, footer |-> ""]

\* Theme::render_text(state, prompt, input, placeholder) of theme `t`.
render_text(t, st, prompt, input, placeholder) ==
    [by     |-> t,
     tag    |-> st.tag,
     prompt |-> prompt,
     body   |-> IF Len(input.value) = 0 THEN placeholder.value ELSE input.value,
     footer |-> st.msg]

\* render starting the buffer afresh once the prompt is cancelled.
TextRenderResetsOnCancel(self, st) ==
    [self |-> IF st.tag = "Cancel" THEN [self EXCEPT !.input = StringCursorDefault] ELSE self,
     out  |-> render_text(ClackTheme, st, self.prompt, self.input, self.placeholder)]

\* render parking the caret at the end of the buffer.
TextRenderMovesCaret(self, st) ==
    [self |-> [self EXCEPT !.input.cursor = Len(self.input.value)],
     out  |-> render_text(ClackTheme, st, self.prompt, self.input, self.placeholder)]

\* Text::render(&mut self, state) -> String: the struct afterwards and the string.
TextRender(self, st) ==
    [self |-> self,
     out  |-> render_text(ClackTheme, st, self.prompt, self.input, self.placeholder)]


---------------------------------------------------------------------------
(* The process-wide theme slot, a Mutex<Box<dyn Theme>>, and the helpers of *)
(* lib.rs that read it.  Each helper is run by a thread; its steps are the  *)
(* places where it takes the mutex and where it gives it back.              *)

Threads == {"t1", "t2"}

NoThread == "none"

Banners == {"intro", "outro", "outro_cancel", "note", "outro_note"}

LogOps == {"remark", "info", "warning", "error", "success", "step"}

Helpers == Banners \cup LogOps

NoSymbol == [by |-> "", glyph |-> ""]

NoTerm == [by |-> "", block |-> "", symbol |-> NoSymbol]

NoLast ==
    [thread |-> NoThread, op |-> "", attempts |-> 0, io |-> "", ret |-> "",
     line |-> NoTerm, start |-> ""]

Idle == [pc |-> "idle", op |-> "", arg |-> "", symbol |-> NoSymbol, start |-> "", left |-> MaxCalls]

\* The symbol method of theme `t` each log helper calls.
symbol_of(t, op) ==
    [by    |-> t,
     glyph |-> CASE op = "remark"  -> "remark_symbol"
                 [] op = "info"    -> "info_symbol"
                 [] op = "warning" -> "warning_symbol"
                 [] op = "error"   -> "error_symbol"
                 [] op = "success" -> "active_symbol"
                 [] op = "step"    -> "submit_symbol"]

\* The format method of theme `t` each helper calls, and the block it makes.
format_block(t, op, symbol) ==
    [by     |-> t,
     block  |-> CASE op = "intro"        -> "format_intro"
                  [] op = "outro"        -> "format_outro"
                  [] op = "outro_cancel" -> "format_outro_cancel"
                  [] op = "note"         -> "format_note(false)"
                  [] op = "outro_note"   -> "format_note(true)"
                  [] op \in LogOps       -> "format_log",
     symbol |-> symbol]

IoOutcomes == {"ok", "failed"}

\* term_write with a second attempt after a failed write.
term_write_retries(line, io) ==
    [attempts |-> IF io = "ok" THEN 1 ELSE 2,
     ret      |-> IF io = "ok" THEN "Ok" ELSE "Err",
     out      |-> IF io = "ok" THEN <<line>> ELSE <<>>]

\* term_write(line) -> io::Result<()>: one write_str on stderr, whose result is
\* the result; `io` is what the terminal does with the write.
term_write(line, io) ==
    [attempts |-> 1,
     ret      |-> IF io = "ok" THEN "Ok" ELSE "Err",
     out      |-> IF io = "ok" THEN <<line>> ELSE <<>>]

\* A thread enters a helper: it is about to take the mutex.
call(t, op, arg, at) ==
    /\ thr[t].pc = "idle"
    /\ thr[t].left > 0
    /\ thr' = [thr EXCEPT ![t] =
                  [pc |-> at, op |-> op, arg |-> arg, symbol |-> NoSymbol,
                   start |-> theme, left |-> thr[t].left - 1]]
    /\ UNCHANGED <<promptVars, theme, term, lock, last>>

intro(t) == call(t, "intro", "", "lock_line")

outro(t) == call(t, "outro", "", "lock_line")

outro_cancel(t) == call(t, "outro_cancel", "", "lock_line")

outro_note(t) == call(t, "outro_note", "", "lock_line")

note(t) == call(t, "note", "", "lock_line")

remark(t) == call(t, "remark", "", "lock_symbol")

info(t) == call(t, "info", "", "lock_symbol")

warning(t) == call(t, "warning", "", "lock_symbol")

error(t) == call(t, "error", "", "lock_symbol")

success(t) == call(t, "success", "", "lock_symbol")

step(t) == call(t, "step", "", "lock_symbol")

\* theme::set_theme(new_theme)
set_theme(t, new_theme) == call(t, "set_theme", new_theme, "lock_slot")

\* theme::reset_theme()
reset_theme(t) == call(t, "reset_theme", ClackTheme, "lock_slot")

\* THEME.lock().unwrap(): the thread waits until the mutex is free and takes it.
lock_theme(t) ==
    /\ thr[t].pc \in {"lock_symbol", "lock_line", "lock_slot"}
    /\ lock = NoThread
    /\ lock' = t
    /\ thr' = [thr EXCEPT ![t].pc =
                  CASE thr[t].pc = "lock_symbol" -> "symbol"
                    [] thr[t].pc = "lock_line"   -> "line"
                    [] thr[t].pc = "lock_slot"   -> "slot"]
    /\ UNCHANGED <<promptVars, theme, term, last>>

\* The symbol read with the guard bound to a variable that lives on into log().
read_symbol_keeps_guard(t) ==
    /\ thr[t].pc = "symbol"
    /\ lock = t
    /\ thr' = [thr EXCEPT ![t].symbol = symbol_of(theme, thr[t].op),
                          ![t].pc = "lock_line"]
    /\ UNCHANGED <<promptVars, theme, term, lock, last>>

\* let symbol = THEME.lock().unwrap().<op>_symbol(): the symbol is read and the
\* guard, a temporary of the let statement, is dropped; log() comes next.
read_symbol(t) ==
    /\ thr[t].pc = "symbol"
    /\ lock = t
    /\ thr' = [thr EXCEPT ![t].symbol = symbol_of(theme, thr[t].op),
                          ![t].pc = "lock_line"]
    /\ lock' = NoThread
    /\ UNCHANGED <<promptVars, theme, term, last>>

\* term_write(THEME.lock().unwrap().format_..(..)) with the mutex held: the
\* block is formatted and written, the guard is dropped and the helper returns
\* what term_write returned.
write_line(t, io) ==
    /\ thr[t].pc = "line"
    /\ lock = t
    /\ LET line == format_block(theme, thr[t].op, thr[t].symbol)
           w    == term_write(line, io)
       IN  /\ term' = IF w.out = <<>> THEN term ELSE w.out[1]
           /\ last' = [thread |-> t, op |-> thr[t].op, attempts |-> w.attempts,
                       io |-> io, ret |-> w.ret, line |-> line, start |-> thr[t].start]
    /\ lock' = NoThread
    /\ thr' = [thr EXCEPT ![t].pc = "idle"]
    /\ UNCHANGED <<promptVars, theme>>

\* *THEME.lock().unwrap() = Box::new(theme): the slot is replaced and the guard dropped.
store_theme(t) ==
    /\ thr[t].pc = "slot"
    /\ lock = t
    /\ theme' = thr[t].arg
    /\ lock' = NoThread
    /\ thr' = [thr EXCEPT ![t].pc = "idle"]
    /\ UNCHANGED <<promptVars, term, last>>

\* The steps of a thread that is inside a helper.
Progress(t) ==
    \/ lock_theme(t)
    \/ read_symbol(t)
    \/ \E io \in IoOutcomes : write_line(t, io)
    \/ store_theme(t)

---------------------------------------------------------------------------
(* The reference sequence model of the cursor buffer: the characters before *)
(* the caret and the characters after it, as two sequences.                 *)

RefEmpty == [left |-> <<>>, right |-> <<>>]

RefInsert(r, chr) == [r EXCEPT !.left = Append(r.left, chr)]

RefDeleteLeft(r) ==
    IF r.left = <<>> THEN r ELSE [r EXCEPT !.left = SubSeq(r.left, 1, Len(r.left) - 1)]

RefDeleteRight(r) == IF r.right = <<>> THEN r ELSE [r EXCEPT !.right = Tail(r.right)]

RefMoveLeft(r) ==
    IF r.left = <<>> THEN r
    ELSE [left  |-> SubSeq(r.left, 1, Len(r.left) - 1),
          right |-> <<r.left[Len(r.left)]>> \o r.right]

RefMoveRight(r) ==
    IF r.right = <<>> THEN r
    ELSE [left |-> Append(r.left, Head(r.right)), right |-> Tail(r.right)]

RefContent(r) == r.left \o r.right

\* The operation each key stands for: a printable character inserts, Backspace
\* and Del delete, the arrows move the caret, any other key is no operation.
RefApply(r, key) ==
    CASE key.kind = "Char" /\ key.chr \notin (0..31) \cup {127} -> RefInsert(r, key.chr)
      [] key.kind = "Backspace"  -> RefDeleteLeft(r)
      [] key.kind = "Del"        -> RefDeleteRight(r)
      [] key.kind = "ArrowLeft"  -> RefMoveLeft(r)
      [] key.kind = "ArrowRight" -> RefMoveRight(r)
      [] OTHER                   -> r

---------------------------------------------------------------------------
(* The event loop: PromptInteraction::interact, entered through Text::interact. *)

NoResult == [kind |-> "None", value |-> <<>>]

\* interact() returned Ok(value).
ResultOk(value) == [kind |-> "Ok", value |-> value]

\* interact() returned the cancellation outcome.
ResultCancelled == [kind |-> "Cancelled", value |-> <<>>]

IsTerminal(st) == st.tag \in {"Submit", "Cancel"}

\* What the loop does with one key it read: Escape is the cancel key, every
\* other key is dispatched to notify.
dispatch(self, key) ==
    IF key = Escape
    THEN [self |-> self, ret |-> Cancel, calls |-> <<>>]
    ELSE TextNotify(self, EventKey(key))

\* The value the loop hands back once the state is terminal.
outcome(st) ==
    CASE st.tag = "Submit" -> ResultOk(st.value)
      [] st.tag = "Cancel" -> ResultCancelled
      [] OTHER             -> NoResult

\* Text::interact(&mut self): enters the loop, which renders the Active prompt
\* and blocks on the first key.
TextInteract ==
    /\ pc = "new"
    /\ LET r == TextRender(text, Active)
       IN  /\ text' = r.self
           /\ frame' = r.out
    /\ twin' = [self |-> TextRender(twin.self, Active).self, state |-> Active]
    /\ state' = Active
    /\ pc' = "reading"
    /\ UNCHANGED <<result, lastKey, lastCalls, errSeen, ref, theme, term, lock, thr, last>>

\* A turn of the loop that goes on reading after a terminal state.
ReadKeyNoReturn(key) ==
    /\ pc = "reading"
    /\ (key.kind = "Char" /\ ~is_ascii_control(key.chr)) => Len(text.input.value) < MaxLen
    /\ LET n == dispatch(text, key)
           r == TextRender(n.self, n.ret)
       IN  /\ text' = r.self
           /\ state' = n.ret
           /\ frame' = r.out
           /\ lastCalls' = n.calls
           /\ errSeen' = (errSeen \/ n.ret.tag = "Error")
           /\ pc' = "reading"
           /\ result' = outcome(n.ret)
    /\ lastKey' = key
    /\ ref' = IF key = Escape THEN ref ELSE RefApply(ref, key)
    /\ twin' = LET n == dispatch(twin.self, key)
               IN  [self |-> TextRender(n.self, n.ret).self, state |-> n.ret]
    /\ UNCHANGED <<theme, term, lock, thr, last>>

\* One turn of the loop: a key is read and handled, the prompt is rendered in
\* the new state, and on Submit or Cancel the loop returns.
ReadKey(key) ==
    /\ pc = "reading"
    /\ (key.kind = "Char" /\ ~is_ascii_control(key.chr)) => Len(text.input.value) < MaxLen
    /\ LET n == dispatch(text, key)
           r == TextRender(n.self, n.ret)
       IN  /\ text' = r.self
           /\ state' = n.ret
           /\ frame' = r.out
           /\ lastCalls' = n.calls
           /\ errSeen' = (errSeen \/ n.ret.tag = "Error")
           /\ pc' = IF IsTerminal(n.ret) THEN "returned" ELSE "reading"
           /\ result' = outcome(n.ret)
    /\ lastKey' = key
    /\ ref' = IF key = Escape THEN ref ELSE RefApply(ref, key)
    /\ twin' = LET n == dispatch(twin.self, key)
               IN  [self |-> TextRender(n.self, n.ret).self, state |-> n.ret]
    /\ UNCHANGED <<theme, term, lock, thr, last>>

\* A call of Text::render(state) on its own: the prompt is drawn again.
Render ==
    /\ pc # "new"
    /\ LET r == TextRender(text, state)
       IN  /\ text' = r.self
           /\ frame' = r.out
    /\ twin' = [twin EXCEPT !.self = TextRender(twin.self, twin.state).self]
    /\ UNCHANGED <<state, pc, result, lastKey, lastCalls, errSeen, ref, theme, term, lock, thr, last>>

---------------------------------------------------------------------------
(* Specifications *)

Placeholders == {<<>>, <<110, 111>>}

Validators == {NoValidator} \cup ValidatorFns

\* Every prompt the builder can make: Text::new(p)[.placeholder(s)][.validate(f)].
Prompts ==
    {TextValidate(TextPlaceholder(TextNew(PromptText), ph), fn) :
        ph \in Placeholders, fn \in Validators}

\* The prompt built like `self` but with the other placeholder.
Twin(self) ==
    LET other == CHOOSE ph \in Placeholders : ph # self.placeholder.value
    IN  TextValidate(TextPlaceholder(TextNew(self.prompt), other), self.validate)

Init ==
    /\ text \in Prompts
    /\ state = Active
    /\ pc = "new"
    /\ result = NoResult
    /\ lastKey = NoKey
    /\ lastCalls = <<>>
    /\ errSeen = FALSE
    /\ ref = RefEmpty
    /\ twin = [self |-> Twin(text), state |-> Active]
    /\ theme = ClackTheme
    /\ frame = NoFrame
    /\ term = NoTerm
    /\ lock = NoThread
    /\ thr = [t \in Threads |-> Idle]
    /\ last = NoLast

\* The Text prompt under every key sequence, with renders in between.
Next ==
    \/ TextInteract
    \/ \E key \in Keys : ReadKey(key)
    \/ Render

Spec == Init /\ [][Next]_vars

\* The Text prompt of the usage example, typed over the letters of "hello".
HelloKeys == {Char(c) : c \in HelloChars} \cup {Backspace, ArrowLeft, ArrowRight, Enter}

InitHello ==
    /\ Init
    /\ text.placeholder.value # <<>>
    /\ text.validate # RejectAll

NextHello ==
    \/ TextInteract
    \/ \E key \in HelloKeys : ReadKey(key)

SpecHello == InitHello /\ [][NextHello]_vars

\* The Text prompt while the theme slot is set and reset.
ThemeKeys == {Char(104), Backspace, Enter, Escape}

NextTheme ==
    \/ TextInteract
    \/ \E key \in ThemeKeys : ReadKey(key)
    \/ Render
    \/ \E t \in Themes : set_theme("t1", t)
    \/ reset_theme("t1")
    \/ intro("t1")
    \/ lock_theme("t1")
    \/ store_theme("t1")
    \/ write_line("t1", "ok")

SpecTheme == Init /\ [][NextTheme]_vars

\* A single prompt, for the specifications of the helpers.
InitHelpers ==
    /\ Init
    /\ text = TextNew(PromptText)

\* One thread calling every helper, the terminal failing or not.
NextLog ==
    \/ intro("t1")
    \/ outro("t1")
    \/ outro_cancel("t1")
    \/ outro_note("t1")
    \/ note("t1")
    \/ remark("t1")
    \/ info("t1")
    \/ warning("t1")
    \/ error("t1")
    \/ success("t1")
    \/ step("t1")
    \/ \E t \in Themes : set_theme("t1", t)
    \/ reset_theme("t1")
    \/ Progress("t1")

SpecLog == InitHelpers /\ [][NextLog]_vars

\* Several threads calling helpers and replacing the theme at once.  A thread
\* inside a helper is scheduled again, and a thread waiting for the mutex gets
\* it once it stays free.
NextThreads ==
    \E t \in Threads :
        \/ intro(t)
        \/ remark(t)
        \/ set_theme(t, MagentaTheme)
        \/ reset_theme(t)
        \/ Progress(t)

SpecThreads ==
    /\ InitHelpers
    /\ [][NextThreads]_vars
    /\ \A t \in Threads :
          /\ SF_vars(lock_theme(t))
          /\ WF_vars(read_symbol(t))
          /\ WF_vars(\E io \in IoOutcomes : write_line(t, io))
          /\ WF_vars(store_theme(t))

TypeOK ==
    /\ text.input.cursor \in 0..Len(text.input.value)
    /\ Len(text.input.value) <= MaxLen
    /\ state.tag \in {"Active", "Error", "Submit", "Cancel"}
    /\ pc \in {"new", "reading", "returned"}
    /\ theme \in Themes

---------------------------------------------------------------------------
(* Properties of the Text prompt.                                          *)
(*                                                                         *)
(* A step of Spec or SpecHello that is not a stuttering step and ends with *)
(* lastKey' = key, taken while pc = "reading", is the loop's turn for      *)
(* `key`: TextInteract ends with lastKey' = NoKey, and Render draws the    *)
(* frame the turn before it drew.                                          *)

Printable(key) == key.kind = "Char" /\ ~(key.chr \in 0..31 \/ key.chr = 127)

C2_RejectAllNeverSubmits ==
    [][ text.validate = RejectAll =>
          /\ state'.tag # "Submit"
          /\ result'.kind # "Ok"
          /\ (pc = "reading" /\ lastKey' = Enter) =>
                (state' = Error(RejectAllMsg) /\ text'.input = text.input)
      ]_vars

\* Enter was refused on a buffer holding "hi" with the caret between the letters.
C2_Witness ==
    /\ text.validate = RejectAll
    /\ lastKey = Enter
    /\ state = Error(RejectAllMsg)
    /\ text.input = [value |-> <<104, 105>>, cursor |-> 1]

\* C3: when no validator is attached, or the validator accepts the content,
\* Enter yields Submit of exactly the buffer's content, wherever the caret is,
\* and interact() returns that string; a Submit state never carries anything
\* but the buffer's content.
C3_EnterSubmitsContent ==
    [][ /\ ( /\ pc = "reading"
             /\ lastKey' = Enter
             /\ \/ text.validate = NoValidator
                \/ (text.validate = Required /\ text.input.value # <<>>) ) =>
              ( /\ state' = Submit(text.input.value)
                /\ result' = ResultOk(text.input.value) )
        /\ state'.tag = "Submit" => state'.value = text'.input.value
      ]_vars

\* h, e, l, l, o were typed, the caret was moved back, and Enter submitted "hello".
C3_Witness ==
    /\ state = Submit(hello)
    /\ result = ResultOk(hello)
    /\ text.input.cursor = 3
    /\ lastKey = Enter

\* C4: in every reachable state the caret is within [0, length of the buffer].
C4_CaretInBounds ==
    /\ text.input.cursor >= 0
    /\ text.input.cursor <= Len(text.input.value)

\* ArrowRight was the last key and the caret stands at the end of "hi".
C4_Witness ==
    /\ lastKey = ArrowRight
    /\ text.input = [value |-> <<104, 105>>, cursor |-> 2]

C6_ValidatorOnlyOnEnter ==
    lastCalls = IF lastKey = Enter /\ text.validate # NoValidator
                THEN << text.input.value >>
                ELSE << >>

\* Enter invoked the validator once with "hi" while the caret was inside the text.
C6_Witness ==
    /\ lastKey = Enter
    /\ lastCalls = << <<104, 105>> >>
    /\ text.input.cursor = 1

\* C7: Error is not terminal: in the Error state the loop has not returned; the
\* next printable character returns Active and lengthens the buffer by one, the
\* next editing key returns Active; and after an Error an Enter on content the
\* validator accepts returns Submit of that content.
C7_ErrorIsNotTerminal ==
    [][ /\ state.tag = "Error" =>
              /\ pc = "reading"
              /\ result = NoResult
              /\ Printable(lastKey') =>
                    /\ state' = Active
                    /\ Len(text'.input.value) = Len(text.input.value) + 1
              /\ lastKey' \in EditKeys => state' = Active
        /\ ( /\ errSeen
             /\ pc = "reading"
             /\ lastKey' = Enter
             /\ text.validate = Required
             /\ text.input.value # <<>> ) =>
              ( /\ state' = Submit(text.input.value)
                /\ pc' = "returned" )
      ]_vars

\* An Enter on the empty buffer was refused, "hi" was typed, and Enter submitted it.
C7_Witness ==
    /\ errSeen
    /\ text.validate = Required
    /\ state = Submit(<<104, 105>>)

\* C8: every render follows the theme slot: a frame or banner produced by a
\* step is produced by the theme the slot holds at that step (the theme set
\* last, or the built-in default when none was set or after a reset), and
\* setting or resetting the theme leaves what was already rendered as it is.
C8_RendersFollowThemeSlot ==
    [][ /\ frame' # frame => (frame'.by = theme /\ theme' = theme)
        /\ term' # term => (term'.by = theme /\ theme' = theme)
        /\ theme' # theme => (frame' = frame /\ term' = term)
      ]_vars

\* The states render may be given.
C9_States ==
    {Active, Error(RejectAllMsg), Error(RequiredMsg), Submit(text.input.value), Cancel}

\* C9: for every state it is given, render leaves the struct (prompt,
\* placeholder, input with its caret, validator) as it was, so that a notify
\* after a render returns what it would have returned without it; and the
\* render that ends a turn of the loop leaves the struct as the handling of
\* the key left it.
C9_RenderKeepsState ==
    /\ [](\A st \in C9_States :
            /\ TextRender(text, st).self = text
            /\ \A key \in Keys :
                  TextNotify(TextRender(text, st).self, EventKey(key)).ret
                      = TextNotify(text, EventKey(key)).ret)
    /\ [][ (pc = "reading" /\ lastKey' # NoKey) =>
              /\ text'.prompt = text.prompt
              /\ text'.placeholder = text.placeholder
              /\ text'.validate = text.validate
              /\ text'.input = dispatch(text, lastKey').self.input
        ]_vars

\* The prompt was drawn in the Error state over "hi" with the caret inside.
C9_Witness ==
    /\ frame.tag = "Error"
    /\ frame.body = <<104, 105>>
    /\ text.input.cursor = 1
    /\ text.placeholder.value # <<>>

\* C10: Backspace with the caret at 0 and Del with the caret at the end change
\* nothing; ArrowLeft at 0 and ArrowRight at the end leave the caret; elsewhere
\* Backspace removes the character before the caret and moves the caret back
\* by one, Del removes the character at the caret and keeps the caret, and the
\* arrows move the caret by one and keep the content.
C10_EditingAtBounds ==
    [][ pc = "reading" =>
          LET v == text.input.value
              c == text.input.cursor
              n == Len(text.input.value)
          IN  /\ lastKey' = Backspace =>
                    text'.input =
                        IF c = 0 THEN text.input
                        ELSE [value  |-> SubSeq(v, 1, c - 1) \o SubSeq(v, c + 1, n),
                              cursor |-> c - 1]
              /\ lastKey' = Del =>
                    text'.input =
                        IF c = n THEN text.input
                        ELSE [value  |-> SubSeq(v, 1, c) \o SubSeq(v, c + 2, n),
                              cursor |-> c]
              /\ lastKey' = ArrowLeft =>
                    text'.input = [value |-> v, cursor |-> IF c = 0 THEN 0 ELSE c - 1]
              /\ lastKey' = ArrowRight =>
                    text'.input = [value |-> v, cursor |-> IF c = n THEN n ELSE c + 1]
      ]_vars

\* Del was the last key and left "hi" with the caret still between the letters.
C10_Witness ==
    /\ lastKey = Del
    /\ text.input = [value |-> <<104, 105>>, cursor |-> 1]

\* C11: after every sequence of insert, delete-left, delete-right, move-left
\* and move-right operations on the initially empty buffer, to_string() is the
\* content of the reference sequence model given the same operations in the
\* same order, and the caret stands where the reference model's does.
C11_MatchesReferenceModel ==
    /\ to_string(text.input) = RefContent(ref)
    /\ text.input.cursor = Len(ref.left)

\* A character was deleted left of the caret, leaving "h" before it and "i" after it.
C11_Witness ==
    /\ lastKey = Backspace
    /\ ref = [left |-> <<104>>, right |-> <<105>>]
    /\ text.input = [value |-> <<104, 105>>, cursor |-> 1]

\* C13: a Char key whose character is not an ASCII control character puts
\* that character at the caret, lengthens the buffer by one, advances the
\* caret by one and returns Active; a Char key whose character is an ASCII
\* control character leaves content and caret alone and returns Active.
C13_CharKeys ==
    [][ (pc = "reading" /\ lastKey'.kind = "Char") =>
          LET v   == text.input.value
              c   == text.input.cursor
              chr == lastKey'.chr
          IN  /\ state' = Active
              /\ IF chr \in (0..31) \cup {127}
                 THEN text'.input = text.input
                 ELSE /\ Len(text'.input.value) = Len(v) + 1
                      /\ text'.input.cursor = c + 1
                      /\ text'.input.value[c + 1] = chr
                      /\ SubSeq(text'.input.value, 1, c) = SubSeq(v, 1, c)
                      /\ SubSeq(text'.input.value, c + 2, Len(v) + 1) = SubSeq(v, c + 1, Len(v))
      ]_vars

\* 'i' was typed between the two letters of "hh".
C13_Witness ==
    /\ lastKey = Char(105)
    /\ state = Active
    /\ text.input = [value |-> <<104, 105, 104>>, cursor |-> 2]

\* C16: two prompts that differ only in their placeholder and receive the
\* same keys are given the same state at every step and hold the same input;
\* a Submit on an empty input carries the empty string, not the placeholder.
C16_PlaceholderHasNoInfluence ==
    /\ twin.self.placeholder # text.placeholder
    /\ twin.self.validate = text.validate
    /\ twin.state = state
    /\ twin.self.input = text.input
    /\ (state.tag = "Submit" /\ text.input.value = <<>>) => state.value = <<>>

\* Enter on the empty input of a prompt with the placeholder "no" submitted "".
C16_Witness ==
    /\ text.placeholder.value = <<110, 111>>
    /\ twin.self.placeholder.value = <<>>
    /\ lastKey = Enter
    /\ state = Submit(<<>>)
    /\ twin.state = Submit(<<>>)

\* The keys notify may be given, with some it has no arm for.
C17_Keys == Keys \cup {Special("Home"), Special("End"), Special("ArrowDown")}

\* C17: notify returns Submit or Error only for Enter and Active for every
\* other key, and a key that is not a printable Char, Backspace, Del, ArrowLeft
\* or ArrowRight leaves content and caret as they were; so do the turns of the
\* loop that dispatch such keys.
C17_OnlyEnterEndsNotify ==
    /\ [](\A key \in C17_Keys :
            LET n == TextNotify(text, EventKey(key))
            IN  /\ n.ret.tag \in {"Submit", "Error"} => key = Enter
                /\ key # Enter => n.ret = Active
                /\ (~Printable(key) /\ key \notin EditKeys) => n.self.input = text.input)
    /\ [][ pc = "reading" =>
             /\ state'.tag \in {"Submit", "Error"} => lastKey' = Enter
             /\ lastKey' \notin {Enter, Escape} => state' = Active
             /\ (~Printable(lastKey') /\ lastKey' \notin EditKeys) => text'.input = text.input
         ]_vars

\* Tab was the last key: the state is Active and "hi" stands with the caret inside.
C17_Witness ==
    /\ lastKey = Tab
    /\ state = Active
    /\ text.input = [value |-> <<104, 105>>, cursor |-> 1]

---------------------------------------------------------------------------
(* Properties of the banner and logging helpers.                           *)

\* The places where a thread waits for the THEME mutex.
Waiting == {"lock_symbol", "lock_line", "lock_slot"}

\* The places where a thread holds the THEME mutex.
Holding == {"symbol", "line", "slot"}

\* C12: a banner or logging helper that has returned made exactly one write on
\* the terminal; it returned Ok when the write succeeded, and when the write
\* failed it returned the I/O error, having tried no second write; and a step
\* that changes what is on the terminal is the return of one helper whose
\* single write succeeded, the terminal then showing the block it formatted.
C12_OneWritePerCall ==
    /\ [](last.op \in Helpers =>
            /\ last.attempts = 1
            /\ last.io = "ok" => last.ret = "Ok"
            /\ last.io = "failed" => last.ret = "Err")
    /\ [][ /\ last' # last =>
                /\ last'.op \in Helpers
                /\ last'.io = "failed" => term' = term
                /\ last'.io = "ok" => term' = last'.line
           /\ term' # term => (last' # last /\ last'.io = "ok")
         ]_vars

C12_Witness ==
    /\ last.op = "warning"
    /\ last.io = "failed"
    /\ last.ret = "Err"
    /\ last.attempts = 1
    /\ term.block = "format_note(true)"
    /\ thr["t1"].pc = "idle"

C15_LogLineFromOneTheme ==
    last.op \in LogOps =>
        /\ last.line.symbol.by = last.line.by
        /\ last.line.symbol.by = last.start
        /\ last.line.by = last.start

=============================================================================
